---- MODULE Spec2Model ----
(***************************************************************************)
(* Model of code/math3.py: three star imports (math, numpy, cmath), the    *)
(* rebinding of inf, and a loop over zip([sqrt, ceil, isfinite],           *)
(* [-1, 4.5, inf * 1j]) that prints either "name(input) -> result" or the  *)
(* message of the caught exception.                                        *)
(*                                                                         *)
(* Numbers are records: ints, floats (finite values in tenths, or inf,     *)
(* -inf, nan), complex numbers (two float components) and bools.  The      *)
(* library functions, the arithmetic of inf * 1j and the text formatting   *)
(* are computed, not tabulated.                                            *)
(***************************************************************************)
EXTENDS Integers, Sequences, FiniteSets

VARIABLES pc, imp, pending, ns, fns, nums, i, fn, num, raised, text, out, calls

vars == <<pc, imp, pending, ns, fns, nums, i, fn, num, raised, text, out, calls>>

(***************************************************************************)
(* Values                                                                  *)
(***************************************************************************)
None == [t |-> "none"]
IntV(n) == [t |-> "int", n |-> n]
Fin(x) == [k |-> "fin", x |-> x]
PosInf == [k |-> "inf", x |-> 1]
NegInf == [k |-> "inf", x |-> -1]
NaN == [k |-> "nan", x |-> 0]
FloatV(c) == [t |-> "float", f |-> c]
ComplexV(re, im) == [t |-> "complex", re |-> re, im |-> im]
BoolV(b) == [t |-> "bool", b |-> b]
Exc(cls, msg) == [ok |-> FALSE, cls |-> cls, msg |-> msg]
Ret(v) == [ok |-> TRUE, val |-> v]

\* sign of a float component: -1, 0 or 1 (nan has none and is handled first)
Sgn(c) == IF c.x > 0 THEN 1 ELSE IF c.x < 0 THEN -1 ELSE 0

\* IEEE multiplication of two float components (finite values in tenths)
FMul(a, b) ==
    IF a.k = "nan" \/ b.k = "nan" THEN NaN
    ELSE IF a.k = "inf" \/ b.k = "inf"
         THEN IF Sgn(a) * Sgn(b) = 0 THEN NaN
              ELSE IF Sgn(a) * Sgn(b) > 0 THEN PosInf ELSE NegInf
         ELSE Fin((a.x * b.x) \div 10)

\* IEEE addition of two float components
FAdd(a, b) ==
    IF a.k = "nan" \/ b.k = "nan" THEN NaN
    ELSE IF a.k = "inf" /\ b.k = "inf"
         THEN IF Sgn(a) = Sgn(b) THEN a ELSE NaN
         ELSE IF a.k = "inf" THEN a
         ELSE IF b.k = "inf" THEN b
         ELSE Fin(a.x + b.x)

FNeg(a) == IF a.k = "nan" THEN NaN ELSE [k |-> a.k, x |-> -a.x]

FSub(a, b) == FAdd(a, FNeg(b))

\* the float a real (int or float) value converts to
ToFloat(v) == IF v.t = "int" THEN Fin(10 * v.n) ELSE v.f

\* the complex number any numeric value converts to
ToComplex(v) ==
    IF v.t = "complex" THEN v ELSE ComplexV(ToFloat(v), Fin(0))

\* a * b when one operand is complex: both are converted to complex and
\* multiplied component-wise, (a+bi)(c+di) = (ac-bd) + (ad+bc)i
Mul(a, b) ==
    LET p == ToComplex(a)
        q == ToComplex(b)
    IN  ComplexV(FSub(FMul(p.re, q.re), FMul(p.im, q.im)),
                FAdd(FMul(p.re, q.im), FMul(p.im, q.re)))

\* float("inf"), float("nan"): the only literals the program parses
ParseFloat(s) ==
    CASE s = "inf" -> FloatV(PosInf)
      [] s = "-inf" -> FloatV(NegInf)
      [] s = "nan" -> FloatV(NaN)

OneJ == ComplexV(Fin(0), Fin(10))

(***************************************************************************)
(* Formatting: str() of a value, as an f-string field renders it           *)
(***************************************************************************)
Digit(d) == SubSeq("0123456789", d + 1, d + 1)

RECURSIVE NatStr(_)
NatStr(n) == IF n < 10 THEN Digit(n) ELSE NatStr(n \div 10) \o Digit(n % 10)

IntStr(n) == IF n < 0 THEN "-" \o NatStr(-n) ELSE NatStr(n)

\* repr of a float: always with a fractional part when finite
FloatStr(c) ==
    CASE c.k = "nan" -> "nan"
      [] c.k = "inf" -> IF c.x > 0 THEN "inf" ELSE "-inf"
      [] c.k = "fin" ->
           LET a == IF c.x < 0 THEN -c.x ELSE c.x
           IN  (IF c.x < 0 THEN "-" ELSE "") \o NatStr(a \div 10)
               \o "." \o Digit(a % 10)

\* a component inside a complex repr: integral values lose the ".0"
PartStr(c) ==
    IF c.k = "fin" /\ c.x % 10 = 0 THEN IntStr(c.x \div 10) ELSE FloatStr(c)

\* repr of a complex: "<im>j" when the real part is zero, else
\* "(<re><sign><im>j)" where nan and non-negative parts take "+"
ComplexStr(v) ==
    IF v.re.k = "fin" /\ v.re.x = 0
    THEN PartStr(v.im) \o "j"
    ELSE "(" \o PartStr(v.re)
             \o (IF v.im.k # "nan" /\ v.im.x < 0 THEN "" ELSE "+")
             \o PartStr(v.im) \o "j)"

Str(v) ==
    CASE v.t = "int" -> IntStr(v.n)
      [] v.t = "float" -> FloatStr(v.f)
      [] v.t = "complex" -> ComplexStr(v)
      [] v.t = "bool" -> IF v.b THEN "True" ELSE "False"

(***************************************************************************)
(* Library semantics of the functions the three modules export             *)
(***************************************************************************)
\* square root of a non-negative float component; finite values are
\* modelled where the root is exact in tenths (0.0 -> 0.0, 1.0 -> 1.0, 4.0 -> 2.0)
FSqrt(c) ==
    IF c.k # "fin" THEN c
    ELSE Fin(CHOOSE r \in 0..(c.x + 10) : r * r = 10 * c.x)

\* C99 csqrt, principal branch, on the values the model represents
CSqrt(z) ==
    IF z.im.k = "inf" THEN ComplexV(PosInf, z.im)
    ELSE IF z.re.k = "nan" \/ z.im.k = "nan" THEN ComplexV(NaN, NaN)
    ELSE IF z.re.k = "inf"
         THEN IF z.re.x > 0 THEN ComplexV(PosInf, Fin(0))
              ELSE ComplexV(Fin(0), PosInf)
    ELSE IF z.re.x >= 0 THEN ComplexV(FSqrt(z.re), Fin(0))
    ELSE ComplexV(Fin(0), FSqrt(FNeg(z.re)))

NotReal == Exc("TypeError", "must be real number, not complex")

math_sqrt(v) ==
    IF v.t = "complex" THEN NotReal
    ELSE LET c == ToFloat(v)
         IN  IF c.k # "nan" /\ c.x < 0
             THEN Exc("ValueError", "math domain error")
             ELSE Ret(FloatV(FSqrt(c)))

\* numpy.sqrt: a negative real gives nan (with a warning, not an exception)
numpy_sqrt(v) ==
    IF v.t = "complex" THEN Ret(CSqrt(v))
    ELSE LET c == ToFloat(v)
         IN  IF c.k # "nan" /\ c.x < 0 THEN Ret(FloatV(NaN))
             ELSE Ret(FloatV(FSqrt(c)))

cmath_sqrt(v) == Ret(CSqrt(ToComplex(v)))

\* smallest integer (in units) not below a finite value given in tenths
CeilTenths(x) == -((-x) \div 10)

\* math.ceil returns an int
math_ceil(v) ==
    CASE v.t = "complex" -> NotReal
      [] v.t = "int" -> Ret(v)
      [] v.t = "float" ->
           CASE v.f.k = "nan" ->
                  Exc("ValueError", "cannot convert float NaN to integer")
             [] v.f.k = "inf" ->
                  Exc("OverflowError", "cannot convert float infinity to integer")
             [] v.f.k = "fin" -> Ret(IntV(CeilTenths(v.f.x)))

\* numpy.ceil of a float returns a float
numpy_ceil(v) ==
    CASE v.t = "complex" ->
           Exc("TypeError", "ufunc 'ceil' not supported for the input types")
      [] v.t = "float" ->
           IF v.f.k = "fin" THEN Ret(FloatV(Fin(10 * CeilTenths(v.f.x))))
           ELSE Ret(v)

math_isfinite(v) ==
    IF v.t = "complex" THEN NotReal
    ELSE Ret(BoolV(ToFloat(v).k = "fin"))

numpy_isfinite(v) ==
    LET z == ToComplex(v) IN Ret(BoolV(z.re.k = "fin" /\ z.im.k = "fin"))

cmath_isfinite(v) ==
    LET z == ToComplex(v) IN Ret(BoolV(z.re.k = "fin" /\ z.im.k = "fin"))

Func(mod, name) == [t |-> "fn", mod |-> mod, name |-> name]

\* fn(num): dispatch on the function object
Call(f, v) ==
    CASE f.name = "sqrt" /\ f.mod = "math" -> math_sqrt(v)
      [] f.name = "sqrt" /\ f.mod = "numpy" -> numpy_sqrt(v)
      [] f.name = "sqrt" /\ f.mod = "cmath" -> cmath_sqrt(v)
      [] f.name = "ceil" /\ f.mod = "math" -> math_ceil(v)
      [] f.name = "ceil" /\ f.mod = "numpy" -> numpy_ceil(v)
      [] f.name = "isfinite" /\ f.mod = "math" -> math_isfinite(v)
      [] f.name = "isfinite" /\ f.mod = "numpy" -> numpy_isfinite(v)
      [] f.name = "isfinite" /\ f.mod = "cmath" -> cmath_isfinite(v)

\* classes that `except Exception` catches
ExceptionClasses == {"ValueError", "TypeError", "OverflowError", "NameError"}

\* an except clause that names ValueError only
CaughtValueError(cls) == cls = "ValueError"

Caught(cls) == cls \in ExceptionClasses

(***************************************************************************)
(* The program                                                             *)
(***************************************************************************)
\* the first two imports exchanged
ImportOrderNumpyFirst == <<"numpy", "math", "cmath">>

\* cmath imported first instead of last
ImportOrderCmathFirst == <<"cmath", "math", "numpy">>

\* lines 1-3: the star imports, in source order
ImportOrder == <<"math", "numpy", "cmath">>

\* the names the model follows: the three the loop calls, inf (rebound on
\* line 5) and two constants every module exports
Names == {"sqrt", "ceil", "isfinite", "inf", "pi", "e"}

\* numpy exporting no ceil
ExportsNumpyNoCeil(mod) ==
    CASE mod = "math" -> Names
      [] mod = "numpy" -> Names \ {"ceil"}
      [] mod = "cmath" -> Names \ {"ceil"}

\* the public names a star import of each module binds (cmath has no ceil)
Exports(mod) ==
    CASE mod = "math" -> Names
      [] mod = "numpy" -> Names
      [] mod = "cmath" -> Names \ {"ceil"}

\* a binding that keeps the name's earlier binding when there is one
BindKeepFirst(space, name, origin) ==
    IF space[name] = "unbound" THEN [space EXCEPT ![name] = origin] ELSE space

\* binding a name in the module namespace replaces any earlier binding
Bind(space, name, origin) == [space EXCEPT ![name] = origin]

\* the object a name denotes: every inf is the float infinity, whether it
\* was imported or built by float("inf"); the other names are functions
Lookup(space, name) ==
    IF name = "inf" THEN ParseFloat("inf") ELSE Func(space[name], name)

\* line 6: the functions zipped, in order
FnNames == <<"sqrt", "ceil", "isfinite">>

\* the third input built as the pure imaginary infinity
InputsPureImaginary(space) ==
    <<IntV(-1), FloatV(Fin(45)), ComplexV(Fin(0), Lookup(space, "inf").f)>>

\* line 6: the inputs zipped, in order
Inputs(space) == <<IntV(-1), FloatV(Fin(45)), Mul(Lookup(space, "inf"), OneJ)>>

\* the inputs taken from the far end
ZipPairReversed(fs, xs, k) == <<fs[k], xs[Len(xs) + 1 - k]>>

\* zip: the k-th pair is the k-th function with the k-th input
ZipPair(fs, xs, k) == <<fs[k], xs[k]>>

\* the success line without the function name
ResultLineNoName(f, v, r) == "(" \o Str(v) \o ") -> " \o Str(r)

\* line 8: the f-string of the success branch
ResultLine(f, v, r) == f.name \o "(" \o Str(v) \o ") -> " \o Str(r)

\* a loop that stops at the first failure
AfterPrintBreak(failed) == IF failed THEN "done" ELSE "next"

\* after a line is printed the loop goes on, whatever the outcome was
AfterPrint(failed) == "next"

\* a failure that prints nothing
PrintedSilent(k, failed, line) ==
    IF failed THEN <<>>
    ELSE <<[pair |-> k, kind |-> "result", text |-> line]>>

\* the lines one iteration prints: the result line, or the message
Printed(k, failed, line) ==
    <<[pair |-> k, kind |-> IF failed THEN "error" ELSE "result",
       text |-> line]>>

TypeOK ==
    /\ pc \in {"import", "bind", "assign", "zip", "next", "try", "print",
               "done", "crashed"}
    /\ imp \in 0..3
    /\ pending \subseteq Names
    /\ i \in 0..3
    /\ raised \in BOOLEAN

Unbound == [n \in Names |-> "unbound"]

Init ==
    /\ pc = "import"
    /\ imp = 0
    /\ pending = {}
    /\ ns = Unbound
    /\ fns = <<>>
    /\ nums = <<>>
    /\ i = 0
    /\ fn = None
    /\ num = None
    /\ raised = FALSE
    /\ text = ""
    /\ out = <<>>
    /\ calls = <<>>

\* `from <module> import *`: the module is loaded and its public names wait
\* to be bound
ImportStar ==
    /\ pc = "import"
    /\ imp < Len(ImportOrder)
    /\ imp' = imp + 1
    /\ pending' = Exports(ImportOrder[imp + 1])
    /\ pc' = "bind"
    /\ UNCHANGED <<ns, fns, nums, i, fn, num, raised, text, out, calls>>

\* the star import binds its names one at a time, in the order the module
\* lists them (any order here); after the last the next line runs
BindName ==
    /\ pc = "bind"
    /\ \E n \in pending :
          /\ ns' = Bind(ns, n, ImportOrder[imp])
          /\ pending' = pending \ {n}
          /\ pc' = IF pending' # {} THEN "bind"
                   ELSE IF imp < Len(ImportOrder) THEN "import" ELSE "assign"
    /\ UNCHANGED <<imp, fns, nums, i, fn, num, raised, text, out, calls>>

\* line 5: inf = float("inf")
AssignInf ==
    /\ pc = "assign"
    /\ ns' = Bind(ns, "inf", "main")
    /\ pc' = "zip"
    /\ UNCHANGED <<imp, pending, fns, nums, i, fn, num, raised, text, out, calls>>

\* line 6: the two lists are built (a name that is not bound is a NameError
\* outside the try) and zipped
BuildZip ==
    /\ pc = "zip"
    /\ IF \E n \in {"sqrt", "ceil", "isfinite", "inf"} : ns[n] = "unbound"
       THEN /\ pc' = "crashed"
            /\ UNCHANGED <<fns, nums>>
       ELSE /\ fns' = [k \in 1..Len(FnNames) |-> Lookup(ns, FnNames[k])]
            /\ nums' = Inputs(ns)
            /\ pc' = "next"
    /\ UNCHANGED <<imp, pending, ns, i, fn, num, raised, text, out, calls>>

\* line 6: the for statement takes the next pair, or ends the loop
ZipNext ==
    /\ pc = "next"
    /\ IF i < Len(fns) /\ i < Len(nums)
       THEN /\ i' = i + 1
            /\ fn' = ZipPair(fns, nums, i + 1)[1]
            /\ num' = ZipPair(fns, nums, i + 1)[2]
            /\ pc' = "try"
       ELSE /\ pc' = "done"
            /\ UNCHANGED <<i, fn, num>>
    /\ UNCHANGED <<imp, pending, ns, fns, nums, raised, text, out, calls>>

\* lines 7-9: the f-string is evaluated, calling fn(num); an exception of a
\* class the except clause names is kept as err, any other propagates
TryCall ==
    /\ pc = "try"
    /\ calls' = Append(calls, <<fn, num>>)
    /\ LET r == Call(fn, num)
       IN  IF r.ok
           THEN /\ raised' = FALSE
                /\ text' = ResultLine(fn, num, r.val)
                /\ pc' = "print"
           ELSE IF Caught(r.cls)
           THEN /\ raised' = TRUE
                /\ text' = r.msg
                /\ pc' = "print"
           ELSE /\ pc' = "crashed"
                /\ UNCHANGED <<raised, text>>
    /\ UNCHANGED <<imp, pending, ns, fns, nums, i, fn, num, out>>

\* line 8 or line 10: the print of the branch that was taken
EmitLine ==
    /\ pc = "print"
    /\ out' = out \o Printed(i, raised, text)
    /\ pc' = AfterPrint(raised)
    /\ UNCHANGED <<imp, pending, ns, fns, nums, i, fn, num, raised, text, calls>>

Next ==
    \/ ImportStar
    \/ BindName
    \/ AssignInf
    \/ BuildZip
    \/ ZipNext
    \/ TryCall
    \/ EmitLine

Spec == Init /\ [][Next]_vars

(***************************************************************************)
(* The loop of lines 6-10 on its own, started with each of the three names *)
(* bound to any module that exports it (what the imports of lines 1-3 can  *)
(* leave behind under any choice and order of star imports), so that every *)
(* mix of succeeding and failing pairs the libraries allow occurs.         *)
(***************************************************************************)
Modules == {"math", "numpy", "cmath"}

Resolutions ==
    {r \in [Names -> Modules \cup {"main"}] :
        /\ r["inf"] = "main"
        /\ r["pi"] = "cmath"
        /\ r["e"] = "cmath"
        /\ \A n \in {"sqrt", "ceil", "isfinite"} :
              r[n] \in Modules /\ n \in Exports(r[n])}

InitHarness ==
    /\ pc = "zip"
    /\ imp = Len(ImportOrder)
    /\ pending = {}
    /\ ns \in Resolutions
    /\ fns = <<>>
    /\ nums = <<>>
    /\ i = 0
    /\ fn = None
    /\ num = None
    /\ raised = FALSE
    /\ text = ""
    /\ out = <<>>
    /\ calls = <<>>

NextLoop ==
    \/ BuildZip
    \/ ZipNext
    \/ TryCall
    \/ EmitLine

SpecHarness == InitHarness /\ [][NextLoop]_vars

\* the interpreter always runs the next statement
LiveHarness == InitHarness /\ [][NextLoop]_vars /\ WF_vars(NextLoop)

(***************************************************************************)
(* Properties                                                              *)
(***************************************************************************)
Started == pc \in {"zip", "next", "try", "print", "done"}

\* C1 as stated: the line printed for the second pair is exactly
\* `ceil(4.5) -> 5`, a result line showing the integer 5.
C1_Original ==
    Len(out) >= 2 =>
        out[2] = [pair |-> 2, kind |-> "result", text |-> "ceil(4.5) -> 5"]

\* C1 amended: the call for the second pair (ceil, 4.5) succeeds and the
\* line printed is exactly `ceil(4.5) -> 5.0`: the printed name is ceil and
\* the printed result is the float 5.0, because ceil is numpy's.
C1_CeilPrintsFloat ==
    /\ Len(out) >= 2 =>
          out[2] = [pair |-> 2, kind |-> "result", text |-> "ceil(4.5) -> 5.0"]
    /\ (pc = "print" /\ i = 2) =>
          /\ ~raised
          /\ fn.name = "ceil"
          /\ Call(fn, num) = Ret(FloatV(Fin(50)))

C1_Witness == pc = "done" /\ Len(out) = 3 /\ out[2].text = "ceil(4.5) -> 5.0"

\* C2 as stated: the invocation for the first pair (sqrt, -1) fails; the
\* except branch is taken and the line printed is a non-empty error message.
C2_Original ==
    /\ (pc = "print" /\ i = 1) => raised
    /\ Len(out) >= 1 => out[1].kind = "error" /\ out[1].text # ""

\* C2 amended: the invocation for the first pair (sqrt, -1) succeeds,
\* because sqrt is the complex square root; the except branch is not taken
\* and the line printed is the result line `sqrt(-1) -> 1j`.
C2_SqrtSucceeds ==
    /\ (pc = "print" /\ i = 1) => ~raised /\ fn = Func("cmath", "sqrt")
    /\ Len(out) >= 1 =>
          out[1] = [pair |-> 1, kind |-> "result", text |-> "sqrt(-1) -> 1j"]

C2_Witness == pc = "print" /\ i = 2 /\ out[1].text = "sqrt(-1) -> 1j"

\* C3 as stated: the invocation for the third pair (isfinite, inf * 1j)
\* fails; the except branch is taken and the line printed is a non-empty
\* error message.
C3_Original ==
    /\ (pc = "print" /\ i = 3) => raised
    /\ Len(out) >= 3 => out[3].kind = "error" /\ out[3].text # ""

\* C3 amended: the invocation for the third pair (isfinite, inf * 1j)
\* succeeds, because isfinite is the complex finiteness check; the except
\* branch is not taken and the line printed is the result line
\* `isfinite((nan+infj)) -> False`.
C3_IsfiniteSucceeds ==
    /\ (pc = "print" /\ i = 3) => ~raised /\ fn = Func("cmath", "isfinite")
    /\ Len(out) >= 3 =>
          out[3] = [pair |-> 3, kind |-> "result",
                    text |-> "isfinite((nan+infj)) -> False"]

C3_Witness ==
    pc = "next" /\ i = 3 /\ out[3].text = "isfinite((nan+infj)) -> False"

\* C4: whatever pairs succeed or fail, the run emits exactly three lines,
\* one per pair, line k belonging to pair k: no pair yields no line or two.
C4_ThreeLinesInOrder ==
    /\ Len(out) <= 3
    /\ \A k \in 1..Len(out) : out[k].pair = k
    /\ pc \in {"try", "print"} => Len(out) = i - 1
    /\ pc = "next" => Len(out) = i
    /\ pc = "done" => Len(out) = 3

C4_Witness ==
    /\ pc = "done"
    /\ out[1].kind = "error"
    /\ out[2].kind = "result"
    /\ out[3].kind = "result"

\* C5: no failure raised while a pair is processed leaves the loop: the
\* run is never in the uncaught-error state and it reaches its end.
C5_AlwaysCompletes == [](pc # "crashed") /\ <>(pc = "done")

C5_Witness ==
    pc = "done" /\ out[1].kind = "error" /\ out[3].kind = "error"

\* the output of the program, line by line
ExpectedText ==
    <<"sqrt(-1) -> 1j", "ceil(4.5) -> 5.0", "isfinite((nan+infj)) -> False">>

\* C6: the program is deterministic: whatever order the imports bind their
\* names in, every run prints the same sequence of lines.
C6_Deterministic ==
    /\ \A k \in 1..Len(out) : out[k].text = ExpectedText[k]
    /\ pc = "done" => [k \in 1..Len(out) |-> out[k].text] = ExpectedText

C6_Witness ==
    pc = "done" /\ [k \in 1..Len(out) |-> out[k].text] = ExpectedText

\* C7: each line has one of two shapes, decided by the outcome of its
\* pair's invocation: `name(input) -> result` on success, the message of
\* the failure alone on failure.
C7_LineShape ==
    \A k \in 1..Len(out) :
        LET r == Call(fns[k], nums[k])
        IN  IF r.ok
            THEN /\ out[k].kind = "result"
                 /\ out[k].text = FnNames[k] \o "(" \o Str(nums[k])
                                      \o ") -> " \o Str(r.val)
            ELSE /\ out[k].kind = "error"
                 /\ out[k].text = r.msg
                 /\ out[k].text \in {"math domain error",
                                     "must be real number, not complex"}

C7_Witness ==
    /\ pc = "done"
    /\ out[1].text = "math domain error"
    /\ out[2].text = "ceil(4.5) -> 5"
    /\ out[3].text = "isfinite((nan+infj)) -> False"

\* C8: pair k+1 is attempted only after pair k has printed its line, and
\* it is attempted whether pair k succeeded or failed.
C8_Sequential ==
    /\ pc = "try" => Len(calls) = i - 1 /\ Len(out) = i - 1
    /\ pc = "print" => Len(calls) = i /\ Len(out) = i - 1
    /\ pc = "next" => Len(calls) = Len(out)
    /\ pc = "done" => Len(calls) = 3
    /\ (pc = "next" /\ i < 3) => ENABLED ZipNext

C8_Witness ==
    pc = "try" /\ i = 2 /\ Len(out) = 1 /\ out[1].kind = "error"

\* the pairs of line 6, as values
FixedInputs == <<IntV(-1), FloatV(Fin(45)), ComplexV(NaN, PosInf)>>

\* C9: each function is invoked exactly once and only with its own input
\* (sqrt with -1, ceil with 4.5, isfinite with inf * 1j), and the zipped
\* lists are not modified once built.
C9_FixedPairing ==
    /\ [](/\ Len(calls) <= 3
          /\ \A k \in 1..Len(calls) :
                /\ calls[k][1].name = FnNames[k]
                /\ calls[k][2] = FixedInputs[k]
          /\ pc = "done" => Len(calls) = 3)
    /\ [][pc # "zip" => fns' = fns /\ nums' = nums]_vars

C9_Witness ==
    /\ pc = "done"
    /\ calls = <<<<Func("cmath", "sqrt"), IntV(-1)>>,
                 <<Func("numpy", "ceil"), FloatV(Fin(45))>>,
                 <<Func("cmath", "isfinite"), ComplexV(NaN, PosInf)>>>>

\* the last module, in import order, that exports a name
LastExporter(n) ==
    LET ks == {k \in 1..Len(ImportOrder) : n \in Exports(ImportOrder[k])}
    IN  ImportOrder[CHOOSE k \in ks : \A j \in ks : j <= k]

\* C10: in the loop each name denotes the function of the last star import
\* that exports it: sqrt is cmath's, ceil is numpy's, isfinite is cmath's,
\* and none of the three is the math module's.
C10_LastImportWins ==
    Started =>
        /\ ns["sqrt"] = "cmath"
        /\ ns["ceil"] = "numpy"
        /\ ns["isfinite"] = "cmath"
        /\ \A n \in {"sqrt", "ceil", "isfinite"} : ns[n] # "math"
        /\ \A n \in Names \ {"inf"} : ns[n] = LastExporter(n)
        /\ pc # "zip" =>
              fns = <<Func("cmath", "sqrt"), Func("numpy", "ceil"),
                      Func("cmath", "isfinite")>>

C10_Witness == pc = "try" /\ fn = Func("numpy", "ceil") /\ ns["ceil"] = "numpy"

====
